---- MODULE Spec2Model ----
(***************************************************************************)
(* Model of the server list endpoint (server/views.py) and of the icon     *)
(* validators (server/validators.py).                                      *)
(*                                                                         *)
(* Strings are tuples of characters, so that int(), ==, lower() and        *)
(* os.path.splitext can be computed character by character.  The alphabet  *)
(* is ASCII: a character is a one-character string, and the vertical tab,  *)
(* which TLA+ cannot write, is the token VerticalTab.                      *)
(***************************************************************************)
EXTENDS Integers, Sequences, FiniteSets

VARIABLES
    store,       \* the Server table: id -> row (exists, category name, members)
    classCache,  \* _result_cache of the class attribute ServerListViewSet.queryset
    req,         \* the request the live view instance is serving
    resp,        \* its response (status "none": not produced yet)
    view,        \* the view instance's working queryset while list() is under way
    held,        \* the rows it fetched for the class queryset, and how far it got
    other,       \* the same for a list() call running in another thread
    raced,       \* the table changed while this request was under way
    upload,      \* the icon upload handed to the validators
    verdict      \* what each validator did with it

vars == <<store, classCache, req, resp, view, held, other, raced, upload, verdict>>

----------------------------------------------------------------------------
(* Bounds *)

MaxUserId == 2
MaxQty == 1

\* the primary keys of the two rows the Server table can hold
ServerIds == {1, 2}
UserIds == 1..MaxUserId
\* request.user.id: 0 is AnonymousUser (is_authenticated False), 1 a logged-in user
Requesters == {0, 1}

----------------------------------------------------------------------------
(* Python strings and int() *)

DigitChars == {"0", "1", "2", "3", "4", "5", "6", "7", "8", "9"}

DigitVal(c) ==
    CASE c = "0" -> 0 [] c = "1" -> 1 [] c = "2" -> 2 [] c = "3" -> 3
      [] c = "4" -> 4 [] c = "5" -> 5 [] c = "6" -> 6 [] c = "7" -> 7
      [] c = "8" -> 8 [] c = "9" -> 9 [] OTHER -> 0

\* the character 0x0B
VerticalTab == "<VT>"

\* the characters int() skips at both ends of an ASCII string (Py_ISSPACE)
Whitespace == {" ", "\t", "\n", "\r", "\f", VerticalTab}

RECURSIVE LStrip(_)
LStrip(s) ==
    IF s # <<>> /\ Head(s) \in Whitespace THEN LStrip(Tail(s)) ELSE s

RECURSIVE RStrip(_)
RStrip(s) ==
    IF s # <<>> /\ s[Len(s)] \in Whitespace
    THEN RStrip(SubSeq(s, 1, Len(s) - 1)) ELSE s

Strip(s) == RStrip(LStrip(s))

Unsigned(s) == IF s # <<>> /\ Head(s) \in {"+", "-"} THEN Tail(s) ELSE s

\* digits, with single underscores allowed between two digits
DigitsOk(d) ==
    /\ d # <<>>
    /\ \A i \in 1..Len(d) :
         \/ d[i] \in DigitChars
         \/ /\ d[i] = "_"
            /\ 1 < i /\ i < Len(d)
            /\ d[i - 1] \in DigitChars
            /\ d[i + 1] \in DigitChars

RECURSIVE DigitsVal(_, _)
DigitsVal(d, acc) ==
    IF d = <<>> THEN acc
    ELSE IF Head(d) = "_" THEN DigitsVal(Tail(d), acc)
    ELSE DigitsVal(Tail(d), 10 * acc + DigitVal(Head(d)))

\* int(s) raises ValueError exactly when ~PyIntOk(s)
PyIntOk(s) == DigitsOk(Unsigned(Strip(s)))

PyInt(s) ==
    LET t == Strip(s)
        v == DigitsVal(Unsigned(t), 0)
    IN IF t # <<>> /\ Head(t) = "-" THEN 0 - v ELSE v

----------------------------------------------------------------------------
(* Query parameters: request.query_params.get(name) *)

\* .get() of a parameter the query string does not carry: None
Absent == [present |-> FALSE, val |-> <<>>]
Given(s) == [present |-> TRUE, val |-> s]

\* Python truthiness of a str-or-None: `if category:`, `if by_serverid:`, `if qty:`
Truthy(p) == p.present /\ p.val # <<>>

\* faulty variant: any usual spelling of a true flag counts
IsTrueLiteralLoose(p) ==
    p.present /\ p.val \in {<<"t", "r", "u", "e">>, <<"T", "r", "u", "e">>, <<"1">>}

\* request.query_params.get(...) == "true"
IsTrueLiteral(p) == p.present /\ p.val = <<"t", "r", "u", "e">>

----------------------------------------------------------------------------
(* The data store: the Server table with its category and its members *)

Gaming == <<"G", "a", "m", "e">>
Education == <<"E", "d", "u">>
\* a name no stored server carries
Music == <<"M", "u", "s", "i", "c">>

CategoryNames == {Gaming, Education}
\* the categories a server of id i is created in: server 1 in either, server 2
\* in the first
CategoriesOf(i) == IF i = 1 THEN CategoryNames ELSE {Gaming}
\* the users who join a server of id i: any user joins server 1, the
\* logged-in requester alone joins server 2
JoinersOf(i) == IF i = 1 THEN UserIds ELSE {1}

NoRow == [exists |-> FALSE, category |-> <<>>, members |-> {}]

Min(a, b) == IF a < b THEN a ELSE b

Take(s, n) == SubSeq(s, 1, Min(n, Len(s)))

----------------------------------------------------------------------------
(* django QuerySet: a lazy query description; every filter(), annotate() and *)
(* slice returns a clone with no result cache.  shared marks the object that *)
(* is the class attribute itself, the only one that outlives a request.      *)

\* Server.objects.all() as bound to the class attribute
AllServers ==
    [shared |-> TRUE, category |-> {}, member |-> {}, annotated |-> FALSE,
     countOver |-> {}, id |-> {}, limit |-> -1]

\* faulty variant: the category filter is dropped
FilterCategoryIgnored(q, name) == [q EXCEPT !.shared = FALSE]

FilterCategory(q, name) == [q EXCEPT !.shared = FALSE, !.category = {name}]

FilterMember(q, uid) == [q EXCEPT !.shared = FALSE, !.member = {uid}]

\* annotate(num_members=Count("member")): the count is taken over the member
\* join of the query as built so far, so a preceding filter(member=...) on the
\* same relation restricts the rows that are counted
Annotate(q) ==
    [q EXCEPT !.shared = FALSE, !.annotated = TRUE, !.countOver = q.member]

FilterId(q, n) == [q EXCEPT !.shared = FALSE, !.id = {n}]

\* self.queryset[:n] on a queryset that holds no results: a clone with LIMIT n
Slice(q, n) == [q EXCEPT !.shared = FALSE, !.limit = n]

Matches(q, st, i) ==
    /\ st[i].exists
    /\ q.category = {} \/ st[i].category \in q.category
    /\ q.member = {} \/ q.member \cap st[i].members # {}
    /\ q.id = {} \/ i \in q.id

CountedMembers(q, row) ==
    IF q.countOver = {} THEN row.members ELSE row.members \cap q.countOver

\* the model instance a query yields for row i; num_members is -1 when the
\* instance carries no such attribute
Instance(q, st, i) ==
    [id |-> i, category |-> st[i].category,
     num_members |-> IF q.annotated
                     THEN Cardinality(CountedMembers(q, st[i])) ELSE -1]

\* the query has no order_by: the database returns the rows in an order of
\* its choosing, any arrangement of the table's rows
Orders ==
    {o \in [1..Cardinality(ServerIds) -> ServerIds] :
        \A a, b \in DOMAIN o : a # b => o[a] # o[b]}

\* running the query against the table when the database walks it in order
\* ord; LIMIT keeps the first rows of that walk
Evaluate(q, st, ord) ==
    LET ids == SelectSeq(ord, LAMBDA i : Matches(q, st, i))
        hit == IF q.limit >= 0 THEN Take(ids, q.limit) ELSE ids
    IN [k \in 1..Len(hit) |-> Instance(q, st, hit[k])]

\* faulty variant: the existence check looks the id up in the whole table
ExistsInBase(q, st) == \E i \in ServerIds : i \in q.id /\ st[i].exists

\* QuerySet.exists() on an unevaluated clone
Exists(q, st) == \E i \in ServerIds : Matches(q, st, i)

NoCache == [set |-> FALSE, rows |-> <<>>]

----------------------------------------------------------------------------
(* ServerListViewSet.list, step by step.  A context carries the working      *)
(* self.queryset (q), the plain list a slice of an evaluated queryset gives  *)
(* (sliced), and the exception raised so far (status other than "ok"): a     *)
(* raised exception skips every later step.                                  *)

NoDetail == [msg |-> "", arg |-> <<>>]

Ok(q) == [status |-> "ok", detail |-> NoDetail, q |-> q,
          sliced |-> [is |-> FALSE, rows |-> <<>>]]

Raise(ctx, status, msg, arg) ==
    [ctx EXCEPT !.status = status, !.detail = [msg |-> msg, arg |-> arg]]

\* request.user.is_authenticated
IsAuthenticated(r) == r.user # 0

\* line 86
ByUserFlag(r) == IsTrueLiteral(r.by_user)

\* faulty variant of line 88
WithNumMembersFlagLoose(r) == IsTrueLiteralLoose(r.with_num_members)

\* line 88
WithNumMembersFlag(r) == IsTrueLiteral(r.with_num_members)

StepCategory(ctx, r) ==
    IF ctx.status = "ok" /\ Truthy(r.category)
    THEN [ctx EXCEPT !.q = FilterCategory(ctx.q, r.category.val)]
    ELSE ctx

\* faulty variant: an unauthenticated by_user request is served unfiltered
StepByUserLenient(ctx, r) ==
    IF ctx.status = "ok" /\ ByUserFlag(r) /\ IsAuthenticated(r)
    THEN [ctx EXCEPT !.q = FilterMember(ctx.q, r.user)]
    ELSE ctx

StepByUser(ctx, r) ==
    IF ctx.status = "ok" /\ ByUserFlag(r)
    THEN IF IsAuthenticated(r)
         THEN [ctx EXCEPT !.q = FilterMember(ctx.q, r.user)]
         ELSE Raise(ctx, "AuthenticationFailed", "", <<>>)
    ELSE ctx

StepWithNumMembers(ctx, r) ==
    IF ctx.status = "ok" /\ WithNumMembersFlag(r)
    THEN [ctx EXCEPT !.q = Annotate(ctx.q)]
    ELSE ctx

NotFoundMsg == "Server with id {by_serverid} not found."

\* faulty variant: the ValueError of filter(id=...) is not caught
StepByServerIdUncaught(ctx, r, st) ==
    IF ctx.status = "ok" /\ Truthy(r.by_serverid)
    THEN IF ~IsAuthenticated(r)
         THEN Raise(ctx, "AuthenticationFailed", "", <<>>)
         ELSE IF ~PyIntOk(r.by_serverid.val)
         THEN Raise(ctx, "UnhandledError", "", r.by_serverid.val)
         ELSE LET q2 == FilterId(ctx.q, PyInt(r.by_serverid.val))
              IN IF Exists(q2, st)
                 THEN [ctx EXCEPT !.q = q2]
                 ELSE Raise([ctx EXCEPT !.q = q2], "ValidationError",
                            NotFoundMsg, r.by_serverid.val)
    ELSE ctx

\* faulty variant: the identifier is parsed before the authentication check
StepByServerIdParseFirst(ctx, r, st) ==
    IF ctx.status = "ok" /\ Truthy(r.by_serverid)
    THEN IF ~PyIntOk(r.by_serverid.val)
         THEN Raise(ctx, "ValidationError", "Server value error", <<>>)
         ELSE IF ~IsAuthenticated(r)
         THEN Raise(ctx, "AuthenticationFailed", "", <<>>)
         ELSE LET q2 == FilterId(ctx.q, PyInt(r.by_serverid.val))
              IN IF Exists(q2, st)
                 THEN [ctx EXCEPT !.q = q2]
                 ELSE Raise([ctx EXCEPT !.q = q2], "ValidationError",
                            NotFoundMsg, r.by_serverid.val)
    ELSE ctx

\* filter(id=by_serverid) raises ValueError when int(by_serverid) does; the
\* existence check runs on the query filtered so far
StepByServerId(ctx, r, st) ==
    IF ctx.status = "ok" /\ Truthy(r.by_serverid)
    THEN IF ~IsAuthenticated(r)
         THEN Raise(ctx, "AuthenticationFailed", "", <<>>)
         ELSE IF ~PyIntOk(r.by_serverid.val)
         THEN Raise(ctx, "ValidationError", "Server value error", <<>>)
         ELSE LET q2 == FilterId(ctx.q, PyInt(r.by_serverid.val))
              IN IF Exists(q2, st)
                 THEN [ctx EXCEPT !.q = q2]
                 ELSE Raise([ctx EXCEPT !.q = q2], "ValidationError",
                            NotFoundMsg, r.by_serverid.val)
    ELSE ctx

\* self.queryset[: int(qty)]: int() may raise ValueError, a negative stop is
\* refused by QuerySet.__getitem__, and neither is caught.  A queryset that
\* already holds its results is sliced as a list.
StepQty(ctx, r, cache) ==
    IF ctx.status = "ok" /\ Truthy(r.qty)
    THEN IF ~PyIntOk(r.qty.val) \/ PyInt(r.qty.val) < 0
         THEN Raise(ctx, "UnhandledError", "", r.qty.val)
         ELSE IF ctx.q.shared /\ cache.set
         THEN [ctx EXCEPT !.sliced =
                   [is |-> TRUE, rows |-> Take(cache.rows, PyInt(r.qty.val))]]
         ELSE [ctx EXCEPT !.q = Slice(ctx.q, PyInt(r.qty.val))]
    ELSE ctx

\* the steps of lines 90-118 in the order of the code
Compose(r, st, cache) ==
    StepQty(
      StepByServerId(
        StepWithNumMembers(
          StepByUser(
            StepCategory(Ok(AllServers), r), r), r), r, st), r, cache)

\* ServerSerializer.to_representation: num_members is kept only when the
\* context flag is set
ToRepresentation(inst, flag) ==
    IF flag
    THEN [id |-> inst.id, category |-> inst.category,
          num_members |-> inst.num_members]
    ELSE [id |-> inst.id, category |-> inst.category]

\* iterating the working queryset: the class attribute's queryset fills its
\* result cache on first use and answers from it afterwards
Rows(ctx, st, cache, ord) ==
    IF ctx.sliced.is THEN ctx.sliced.rows
    ELSE IF ctx.q.shared /\ cache.set THEN cache.rows
    ELSE Evaluate(ctx.q, st, ord)

CacheAfter(ctx, st, cache, ord) ==
    IF ctx.status = "ok" /\ ~ctx.sliced.is /\ ctx.q.shared /\ ~cache.set
    THEN [set |-> TRUE, rows |-> Evaluate(ctx.q, st, ord)]
    ELSE cache

\* lines 120-124
Serialize(ctx, r, st, cache, ord) ==
    IF ctx.status = "ok"
    THEN LET rows == Rows(ctx, st, cache, ord)
         IN [status |-> "ok", detail |-> NoDetail,
             data |-> [k \in 1..Len(rows) |->
                          ToRepresentation(rows[k], WithNumMembersFlag(r))]]
    ELSE [status |-> ctx.status, detail |-> ctx.detail, data |-> <<>>]

\* the end of the handler: the response and the class queryset's cache
\* afterwards
Finish(ctx, r, st, cache, ord) ==
    [resp |-> Serialize(ctx, r, st, cache, ord),
     cache |-> CacheAfter(ctx, st, cache, ord)]

\* list() run against one state of the table
ListView(r, st, cache, ord) ==
    Finish(Compose(r, st, cache), r, st, cache, ord)

\* What list() shares with the rest of the process is the table and the
\* results of the class queryset, and it takes no lock on either: each step
\* of a request below holds one access to them.

\* the by_serverid step ran exists() (line 108) and the serializer will query
\* the table again; a slice [:0] is an empty query that is never sent
TwoQueries(ctx) == ctx.q.id # {} /\ ctx.q.limit # 0

\* the qty step (line 118) found the class queryset without results and
\* cloned it with a limit; the serializer will query the table
SlicedCold(ctx) ==
    /\ ctx.q.limit > 0
    /\ ctx.q = Slice(AllServers, ctx.q.limit)

----------------------------------------------------------------------------
(* Requests *)

TrueStr == <<"t", "r", "u", "e">>

DigitStr(n) ==
    CASE n = 0 -> <<"0">> [] n = 1 -> <<"1">> [] n = 2 -> <<"2">>
      [] n = 3 -> <<"3">> [] n = 4 -> <<"4">> [] n = 5 -> <<"5">>
      [] n = 6 -> <<"6">> [] n = 7 -> <<"7">> [] n = 8 -> <<"8">>
      [] OTHER -> <<"9">>

CategoryParams == {Absent, Given(Gaming), Given(Music)}
ByUserParams == {Absent, Given(TrueStr)}
WithNumMembersParams == {Absent, Given(TrueStr)}
\* values of with_num_members that are not the literal "true"
OtherSpellings == {Given(<<>>), Given(<<"T", "r", "u", "e">>), Given(<<"1">>)}
ByServerIdParams ==
    {Absent, Given(<<"x">>)} \cup {Given(DigitStr(i)) : i \in ServerIds}
QtyParams ==
    {Absent, Given(<<"x">>)} \cup {Given(DigitStr(n)) : n \in 0..MaxQty}
\* an empty qty and a negative one
OtherQtys == {Given(<<>>), Given(<<"-", "1">>)}
\* numbers written with the whitespace int() strips
PaddedId == Given(<<"\t", "2", "\n">>)
PaddedQty == Given(<<" ", "1", "\r">>)

\* every combination of the parameter values above; the other spellings of
\* with_num_members with every requester, category and by_user; the other
\* values of qty
\* with every requester, category and by_serverid; the padded numbers alone
\* and together
Requests ==
    [user : Requesters, category : CategoryParams, by_user : ByUserParams,
     with_num_members : WithNumMembersParams, by_serverid : ByServerIdParams,
     qty : QtyParams]
    \cup
    [user : Requesters, category : CategoryParams, by_user : ByUserParams,
     with_num_members : OtherSpellings, by_serverid : {Absent},
     qty : {Absent}]
    \cup
    [user : Requesters, category : CategoryParams, by_user : {Absent},
     with_num_members : {Absent}, by_serverid : ByServerIdParams,
     qty : OtherQtys]
    \cup
    [user : Requesters, category : {Absent}, by_user : {Absent},
     with_num_members : {Absent}, by_serverid : {Absent, PaddedId},
     qty : {Absent, PaddedQty}]

NoRequest ==
    [user |-> 0, category |-> Absent, by_user |-> Absent,
     with_num_members |-> Absent, by_serverid |-> Absent, qty |-> Absent]

NoResponse == [status |-> "none", detail |-> NoDetail, data |-> <<>>]

NoView == [Ok(AllServers) EXCEPT !.status = "none"]

NoFill == [phase |-> "none", rows |-> <<>>]

NoUpload == [present |-> FALSE, name |-> <<>>, width |-> 0, height |-> 0]
NoVerdict == [size |-> "none", extension |-> "none"]

----------------------------------------------------------------------------
(* The list endpoint over its lifetime.  One request is followed from its  *)
(* start to its response; one more list() call, with no parameters, may be *)
(* under way in another thread of the process, and what it does to the     *)
(* class queryset is followed.                                             *)

Init ==
    /\ store = [i \in ServerIds |-> NoRow]
    /\ classCache = NoCache
    /\ req = NoRequest
    /\ resp = NoResponse
    /\ view = NoView
    /\ held = NoFill
    /\ other = NoFill
    /\ raced = FALSE
    /\ upload = NoUpload
    /\ verdict = NoVerdict

Idle == resp.status = "none" /\ view = NoView
Underway == view # NoView
\* the serializer's query of a clone is still to come
Pending == view # NoView /\ held = NoFill
\* between exists() and the serializer's query
Fetching == Pending /\ view.q.id # {}

\* data-store changes made by code outside the view, between requests or
\* between two steps of a request (list() opens no transaction)
CreateServer(i, c, m) ==
    /\ Idle \/ Underway
    /\ ~store[i].exists
    /\ store' = [store EXCEPT ![i] = [exists |-> TRUE, category |-> c, members |-> m]]
    /\ raced' = Underway
    /\ UNCHANGED <<classCache, req, resp, view, held, other, upload, verdict>>

DeleteServer(i) ==
    /\ Idle \/ Underway
    /\ store[i].exists
    /\ store' = [store EXCEPT ![i] = NoRow]
    /\ raced' = Underway
    /\ UNCHANGED <<classCache, req, resp, view, held, other, upload, verdict>>

AddMember(i, u) ==
    /\ Idle \/ Underway
    /\ store[i].exists
    /\ u \notin store[i].members
    /\ store' = [store EXCEPT ![i].members = @ \cup {u}]
    /\ raced' = Underway
    /\ UNCHANGED <<classCache, req, resp, view, held, other, upload, verdict>>

RemoveMember(i, u) ==
    /\ Idle \/ Underway
    /\ store[i].exists
    /\ u \in store[i].members
    /\ store' = [store EXCEPT ![i].members = @ \ {u}]
    /\ raced' = Underway
    /\ UNCHANGED <<classCache, req, resp, view, held, other, upload, verdict>>

\* the Response of lines 120-124 for the working queryset ctx
Answer(ctx, r) ==
    /\ \E out \in {Serialize(ctx, r, store, classCache, ord) : ord \in Orders} :
          resp' = out
    /\ view' = NoView
    /\ held' = NoFill

\* as_view() builds a view instance for the request and runs list() on it, up
\* to and including its first access to the table or to the results of the
\* class queryset, and on to the response when nothing more is to be read
Handle(r) ==
    /\ \E ctx \in {Compose(r, store, classCache)} :
          IF ctx.status # "ok" \/ ctx.sliced.is
          THEN \* an exception, or a slice of the list the class queryset holds
               Answer(ctx, r)
          ELSE IF TwoQueries(ctx) \/ SlicedCold(ctx)
          THEN \* exists() or the slice was the access; the query comes later
               /\ view' = ctx
               /\ UNCHANGED <<resp, held>>
          ELSE IF ctx.q.shared /\ ~classCache.set
          THEN \* QuerySet._fetch_all finds _result_cache None
               /\ view' = ctx
               /\ held' = [phase |-> "checked", rows |-> <<>>]
               /\ UNCHANGED resp
          ELSE \* the rows the class queryset holds, or the query of a clone
               Answer(ctx, r)
    /\ req' = r
    /\ UNCHANGED <<store, classCache, other, raced, upload, verdict>>

List ==
    /\ Idle
    /\ \E r \in Requests : Handle(r)

\* lines 120-124 for a clone: the serializer runs the query against the table
\* as it is now
Fetch ==
    /\ Pending
    /\ Answer(view, req)
    /\ UNCHANGED <<store, classCache, req, other, raced, upload, verdict>>

\* QuerySet._fetch_all on the class queryset: the query is run
Query ==
    /\ held.phase = "checked"
    /\ \E rows \in {Evaluate(view.q, store, ord) : ord \in Orders} :
          held' = [phase |-> "queried", rows |-> rows]
    /\ UNCHANGED <<store, classCache, req, resp, view, other, raced, upload, verdict>>

\* QuerySet._fetch_all: self._result_cache = list(...)
Assign ==
    /\ held.phase = "queried"
    /\ classCache' = [set |-> TRUE, rows |-> held.rows]
    /\ held' = [phase |-> "assigned", rows |-> <<>>]
    /\ UNCHANGED <<store, req, resp, view, other, raced, upload, verdict>>

\* QuerySet.__iter__: iter(self._result_cache), serialized into the Response
Iterate ==
    /\ held.phase = "assigned"
    /\ Answer(view, req)
    /\ UNCHANGED <<store, classCache, req, other, raced, upload, verdict>>

\* another thread's list() call reaches the serializer and finds the class
\* queryset without results
OtherCheck ==
    /\ other = NoFill
    /\ ~classCache.set
    /\ other' = [phase |-> "checked", rows |-> <<>>]
    /\ UNCHANGED <<store, classCache, req, resp, view, held, raced, upload, verdict>>

\* it runs its query
OtherQuery ==
    /\ other.phase = "checked"
    /\ \E rows \in {Evaluate(AllServers, store, ord) : ord \in Orders} :
          other' = [phase |-> "queried", rows |-> rows]
    /\ UNCHANGED <<store, classCache, req, resp, view, held, raced, upload, verdict>>

\* and assigns its rows to the class queryset
OtherAssign ==
    /\ other.phase = "queried"
    /\ classCache' = [set |-> TRUE, rows |-> other.rows]
    /\ other' = NoFill
    /\ UNCHANGED <<store, req, resp, view, held, raced, upload, verdict>>

\* the response is sent and the view instance, with its self.queryset, dropped
Respond ==
    /\ resp.status # "none"
    /\ req' = NoRequest
    /\ resp' = NoResponse
    /\ raced' = FALSE
    /\ UNCHANGED <<store, classCache, view, held, other, upload, verdict>>

Next ==
    \/ \E i \in ServerIds : \E c \in CategoriesOf(i) : CreateServer(i, c, {})
    \/ \E i \in ServerIds : DeleteServer(i)
    \/ \E i \in ServerIds : \E u \in JoinersOf(i) : AddMember(i, u)
    \/ \E i \in ServerIds : \E u \in JoinersOf(i) : RemoveMember(i, u)
    \/ List
    \/ Fetch
    \/ Query
    \/ Assign
    \/ Iterate
    \/ OtherCheck
    \/ OtherQuery
    \/ OtherAssign
    \/ Respond

Spec == Init /\ [][Next]_vars

----------------------------------------------------------------------------
(* server/validators.py *)

MaxIconSide == 70

LowerChar(c) ==
    CASE c = "A" -> "a" [] c = "B" -> "b" [] c = "C" -> "c" [] c = "D" -> "d"
      [] c = "E" -> "e" [] c = "F" -> "f" [] c = "G" -> "g" [] c = "H" -> "h"
      [] c = "I" -> "i" [] c = "J" -> "j" [] c = "K" -> "k" [] c = "L" -> "l"
      [] c = "M" -> "m" [] c = "N" -> "n" [] c = "O" -> "o" [] c = "P" -> "p"
      [] c = "Q" -> "q" [] c = "R" -> "r" [] c = "S" -> "s" [] c = "T" -> "t"
      [] c = "U" -> "u" [] c = "V" -> "v" [] c = "W" -> "w" [] c = "X" -> "x"
      [] c = "Y" -> "y" [] c = "Z" -> "z"
      [] OTHER -> c

\* str.lower()
Lower(s) == [k \in 1..Len(s) |-> LowerChar(s[k])]

\* str.rfind(c), 1-based; 0 when c does not occur
RECURSIVE RFind(_, _)
RFind(s, c) ==
    IF s = <<>> THEN 0
    ELSE IF s[Len(s)] = c THEN Len(s)
    ELSE RFind(SubSeq(s, 1, Len(s) - 1), c)

\* the loop of genericpath._splitext: is there, from position k up to the
\* last dot (excluded), a character that is not a dot?
RECURSIVE NonDotBefore(_, _, _)
NonDotBefore(s, k, dot) ==
    IF k >= dot THEN FALSE
    ELSE IF s[k] # "." THEN TRUE
    ELSE NonDotBefore(s, k + 1, dot)

\* os.path.splitext(s)[1]
SplitExt(s) ==
    LET sep == RFind(s, "/")
        dot == RFind(s, ".")
    IN IF dot > sep /\ NonDotBefore(s, sep + 1, dot)
       THEN SubSeq(s, dot, Len(s))
       ELSE <<>>

ValidExts ==
    {<<".", "j", "p", "g">>, <<".", "j", "p", "e", "g">>, <<".", "p", "n", "g">>,
     <<".", "g", "i", "f">>, <<".", "w", "e", "b", "p">>}

\* `if image:` - a File is truthy when it has a name
ImageTruthy(u) == u.present /\ u.name # <<>>

\* faulty variant: the limit is exclusive
SizeCheckStrict(u) ==
    IF ImageTruthy(u) /\ (u.width >= MaxIconSide \/ u.height >= MaxIconSide)
    THEN "ValidationError" ELSE "accepted"

\* validate_icon_image_size
ValidateIconImageSize(u) ==
    IF ImageTruthy(u) /\ (u.width > MaxIconSide \/ u.height > MaxIconSide)
    THEN "ValidationError" ELSE "accepted"

\* validate_image_file_exstention
ValidateImageFileExtension(u) ==
    IF Lower(SplitExt(u.name)) \notin ValidExts
    THEN "ValidationError" ELSE "accepted"

IconNames ==
    {<<"i", ".", "p", "n", "g">>, <<"i", ".", "P", "N", "G">>,
     <<"i", ".", "P", "n", "g">>, <<"i", ".", "b", "m", "p">>,
     <<"i", ".", "j", "p", "g">>, <<"i", ".", "j", "p", "e", "g">>,
     <<"i", ".", "g", "i", "f">>, <<"i", ".", "w", "e", "b", "p">>,
     <<"i", ".", "b", ".", "p", "n", "g">>, <<"i", ".", "p", "n", "g", ".", "b">>,
     <<".", "p", "n", "g">>, <<".", ".", "g", "i", "f">>,
     <<"p", "n", "g">>, <<"i", ".">>,
     <<"i", ".", "p", "n", "g", "/", "b">>, <<"a", "/", ".", "j", "p", "g">>}

IconSides == {50, MaxIconSide - 1, MaxIconSide, MaxIconSide + 1}

Uploads ==
    {NoUpload} \cup
    [present : {TRUE}, name : IconNames, width : IconSides, height : IconSides]

\* the validators the icon field runs on a submitted value: both on a file,
\* and the size check alone is what an absent image reaches
Validate ==
    /\ verdict.size = "none"
    /\ verdict' =
         [size |-> ValidateIconImageSize(upload),
          extension |-> IF upload.present
                        THEN ValidateImageFileExtension(upload)
                        ELSE "not run"]
    /\ UNCHANGED <<store, classCache, req, resp, view, held, other, raced, upload>>

InitIcon ==
    /\ store = [i \in ServerIds |-> NoRow]
    /\ classCache = NoCache
    /\ req = NoRequest
    /\ resp = NoResponse
    /\ view = NoView
    /\ held = NoFill
    /\ other = NoFill
    /\ raced = FALSE
    /\ upload \in Uploads
    /\ verdict = NoVerdict

NextIcon == Validate

SpecIcon == InitIcon /\ [][NextIcon]_vars

\* the upload passed every validator that ran on it
Passed == verdict.size = "accepted" /\ verdict.extension \in {"accepted", "not run"}

----------------------------------------------------------------------------
(* Properties of the list endpoint.  In a state where a response is held   *)
(* (Done) and raced is false, store is the table as every query of the     *)
(* request saw it; when raced is true, the table changed between two steps *)
(* of the request and store is the table as its last step found it.        *)

Done == resp.status # "none"
Succeeded == resp.status = "ok"

ByUserTrue(r) == r.by_user = Given(TrueStr)
WithNumMembersTrue(r) == r.with_num_members = Given(TrueStr)

\* row n is still in the collection after the category and by_user filters of r
Survives(r, st, n) ==
    /\ n \in ServerIds
    /\ st[n].exists
    /\ Truthy(r.category) => st[n].category = r.category.val
    /\ ByUserTrue(r) => r.user \in st[n].members

NotFound(r) ==
    /\ resp.status = "ValidationError"
    /\ resp.detail = [msg |-> NotFoundMsg, arg |-> r.by_serverid.val]

ValueErrorResp ==
    /\ resp.status = "ValidationError"
    /\ resp.detail.msg = "Server value error"

\* qty is one that the last step neither rejects nor truncates to nothing
QtyNonNegative(r) == PyIntOk(r.qty.val) /\ PyInt(r.qty.val) >= 0
QtyFails(r) == Truthy(r.qty) /\ ~QtyNonNegative(r)

\* C1: every response equals the result of applying the request's own
\* parameters to the data store as it is at the time of the request; nothing
\* left behind in the view's queryset attribute by an earlier request changes it.
C1_ResponseFromCurrentStore ==
    (Done /\ ~raced)
        => \E ord \in Orders : resp = ListView(req, store, NoCache, ord).resp

\* C2: by_user = "true" from an unauthenticated requester always ends in
\* AuthenticationFailed, whatever the other parameters, and returns no record.
C2_ByUserUnauthenticated ==
    (Done /\ ByUserTrue(req) /\ req.user = 0)
        => resp.status = "AuthenticationFailed" /\ resp.data = <<>>

C2_Witness ==
    /\ Done /\ ByUserTrue(req) /\ req.user = 0
    /\ req.category = Given(Gaming)
    /\ WithNumMembersTrue(req)
    /\ req.by_serverid = Given(<<"x">>)
    /\ req.qty = Given(<<"x">>)
    /\ resp.status = "AuthenticationFailed"

\* C3 as stated: a non-numeric by_serverid always ends in ValidationError
\* "Server value error", for every requester and every other parameter.
C3_NonNumericAlwaysValueError ==
    (Done /\ Truthy(req.by_serverid) /\ ~PyIntOk(req.by_serverid.val))
        => ValueErrorResp

\* C3 amended: a non-numeric by_serverid ends in ValidationError "Server value
\* error" for every authenticated requester and every other parameter; an
\* unauthenticated requester gets AuthenticationFailed instead.
C3_NonNumericAuthenticated ==
    (Done /\ Truthy(req.by_serverid) /\ ~PyIntOk(req.by_serverid.val))
        => IF req.user # 0
           THEN ValueErrorResp
           ELSE resp.status = "AuthenticationFailed"

C3_Witness ==
    /\ Done /\ req.user # 0
    /\ req.by_serverid = Given(<<"x">>)
    /\ ByUserTrue(req)
    /\ req.qty = Given(<<"x">>)
    /\ ValueErrorResp

\* C4 as stated: for an authenticated requester and a by_serverid that parses,
\* the not-found error is returned exactly when the id does not survive the
\* category and by_user filters, and a surviving id gives a result holding
\* exactly that one server.
C4_NotFoundIffFilteredOut ==
    (Done /\ req.user # 0 /\ Truthy(req.by_serverid) /\ PyIntOk(req.by_serverid.val))
        => LET n == PyInt(req.by_serverid.val)
           IN /\ NotFound(req) <=> ~Survives(req, store, n)
              /\ Survives(req, store, n)
                   => /\ Succeeded
                      /\ Len(resp.data) = 1
                      /\ resp.data[1].id = n

\* C4 amended: for an authenticated requester and a by_serverid that
\* parses, the not-found error is returned exactly when, at the existence
\* check, the id does not survive the category and by_user filters.  A
\* surviving id gives the one-server result when qty is absent, empty or a
\* positive integer and the table does not change before the serializer's
\* query (qty = 0 truncates it away, a negative or non-numeric qty fails
\* afterwards); when the table changes in between, the request still
\* succeeds and returns that server if it survives the filters then and
\* nothing otherwise.
C4_NotFoundIffFilteredOutQty ==
    /\ (Fetching /\ ~raced)
         => Survives(req, store, PyInt(req.by_serverid.val))
    /\ (Done /\ req.user # 0 /\ Truthy(req.by_serverid) /\ PyIntOk(req.by_serverid.val))
         => LET n == PyInt(req.by_serverid.val)
            IN IF raced
               THEN /\ Succeeded
                    /\ Len(resp.data) = IF Survives(req, store, n) THEN 1 ELSE 0
                    /\ \A k \in 1..Len(resp.data) : resp.data[k].id = n
               ELSE /\ NotFound(req) <=> ~Survives(req, store, n)
                    /\ (/\ Survives(req, store, n)
                        /\ ~Truthy(req.qty)
                             \/ (PyIntOk(req.qty.val) /\ PyInt(req.qty.val) >= 1))
                         => /\ Succeeded
                            /\ Len(resp.data) = 1
                            /\ resp.data[1].id = n

\* the id exists in the table but the category filter excluded it
C4_Witness ==
    /\ Done /\ req.user # 0 /\ ~raced
    /\ req.by_serverid = Given(<<"1">>)
    /\ req.category = Given(Gaming)
    /\ store[1].exists /\ store[1].category = Education
    /\ store[2].exists /\ store[2].category = Gaming
    /\ NotFound(req)

\* C5: with with_num_members = "true", num_members of every returned server
\* is the total number of users in that server's members relation, also when
\* by_user = "true" restricted the collection first.
C5_NumMembersCountsAllMembers ==
    (Done /\ Succeeded /\ WithNumMembersTrue(req))
        => \A k \in 1..Len(resp.data) :
              resp.data[k].num_members
                  = Cardinality(store[resp.data[k].id].members)

\* C6: in a successful response every record carries the num_members key if
\* and only if with_num_members is exactly "true", and a record that carries
\* the key carries the annotated count.
C6_NumMembersKeyIffTrueLiteral ==
    (Done /\ Succeeded)
        => \A k \in 1..Len(resp.data) :
              /\ "num_members" \in DOMAIN resp.data[k]
                    <=> WithNumMembersTrue(req)
              /\ "num_members" \in DOMAIN resp.data[k]
                    => resp.data[k].num_members >= 0

C6_Witness ==
    /\ Done /\ Succeeded
    /\ req.with_num_members = Given(<<"T", "r", "u", "e">>)
    /\ Len(resp.data) = 2
    /\ "num_members" \notin DOMAIN resp.data[1]

\* no stored server carries the requested category name
NoCategoryMatch(r, st) ==
    /\ Truthy(r.category)
    /\ \A i \in ServerIds : st[i].exists => st[i].category # r.category.val

\* C7 as stated: a category that matches nothing gives an empty sequence and
\* not an error, for every requester and every other parameter.
C7_NoMatchAlwaysEmpty ==
    (Done /\ NoCategoryMatch(req, store))
        => Succeeded /\ resp.data = <<>>

\* C7 amended: a category that matches nothing returns no record, and when
\* it matched nothing throughout the request, the request ends with an empty
\* sequence rather than an error exactly when no later step fails: by_user
\* is not "true" or the requester is authenticated, by_serverid is absent or
\* empty, and qty is absent, empty or a non-negative integer.
C7_NoMatchEmptyUnlessLaterFailure ==
    (Done /\ NoCategoryMatch(req, store))
        => /\ resp.data = <<>>
           /\ ~raced =>
                (Succeeded <=>
                    /\ ByUserTrue(req) => req.user # 0
                    /\ ~Truthy(req.by_serverid)
                    /\ ~QtyFails(req))

C7_Witness ==
    /\ Done /\ Succeeded
    /\ req.category = Given(Music)
    /\ store[1].exists /\ store[2].exists
    /\ ByUserTrue(req) /\ req.user \in store[1].members
    /\ WithNumMembersTrue(req)
    /\ req.qty = Given(<<"1">>)
    /\ resp.data = <<>>

\* the servers of the table that the category, by_user and by_serverid
\* parameters of r select
Collection(r, st) ==
    {i \in ServerIds :
        /\ Survives(r, st, i)
        /\ Truthy(r.by_serverid)
             => PyIntOk(r.by_serverid.val) /\ i = PyInt(r.by_serverid.val)}

\* C8: a successful request whose qty parses as a non-negative n returns
\* exactly min(n, k) distinct records of the k servers the earlier steps
\* select from the table (the table not changing during the request).
C8_QtyTruncates ==
    (Done /\ Succeeded /\ ~raced /\ Truthy(req.qty))
        => LET k == Cardinality(Collection(req, store))
               n == PyInt(req.qty.val)
           IN /\ Len(resp.data) = IF n < k THEN n ELSE k
              /\ \A a \in 1..Len(resp.data) :
                    /\ resp.data[a].id \in Collection(req, store)
                    /\ \A b \in 1..Len(resp.data) :
                          resp.data[a].id = resp.data[b].id => a = b

\* what each step of the request fails with, were it reached
FirstFailure(r, st) ==
    IF ByUserTrue(r) /\ r.user = 0 THEN "AuthenticationFailed"
    ELSE IF Truthy(r.by_serverid) /\ r.user = 0 THEN "AuthenticationFailed"
    ELSE IF Truthy(r.by_serverid) /\ ~PyIntOk(r.by_serverid.val)
         THEN "Server value error"
    ELSE IF Truthy(r.by_serverid) /\ ~Survives(r, st, PyInt(r.by_serverid.val))
         THEN NotFoundMsg
    ELSE IF QtyFails(r) THEN "UnhandledError"
    ELSE "ok"

\* C10: the failure returned is that of the earliest failing step in the
\* order category, by_user, with_num_members, by_serverid, qty; in the
\* by_serverid step authentication is checked before parsing and existence,
\* and a bad qty is only reported when no earlier step failed (existence is
\* that of the existence check: the table as it was then).
C10_EarliestFailureWins ==
    Done =>
        LET f == FirstFailure(req, store)
        IN /\ f = "AuthenticationFailed" <=> resp.status = "AuthenticationFailed"
           /\ f = "Server value error" <=> ValueErrorResp
           /\ f = "UnhandledError" <=> resp.status = "UnhandledError"
           /\ ~raced => /\ f = NotFoundMsg <=> NotFound(req)
                        /\ f = "ok" <=> Succeeded

C10_Witness ==
    /\ Done /\ req.user = 0
    /\ req.by_user = Absent
    /\ req.by_serverid = Given(<<"x">>)
    /\ req.qty = Given(<<"x">>)
    /\ resp.status = "AuthenticationFailed"

----------------------------------------------------------------------------
(* Properties of the icon validators *)

Validated == verdict.size # "none"

WithinSize(u) == u.width <= MaxIconSide /\ u.height <= MaxIconSide

\* the part of the name from its last "."
LastDotPart(s) ==
    IF \E k \in 1..Len(s) : s[k] = "."
    THEN LET k == CHOOSE j \in 1..Len(s) :
                      s[j] = "." /\ \A m \in (j + 1)..Len(s) : s[m] # "."
         IN SubSeq(s, k, Len(s))
    ELSE <<>>

\* the last "." is an extension separator: no "/" follows it and, in the last
\* path component, some character other than "." precedes it
HasExtension(s) ==
    \E k \in 1..Len(s) :
        /\ s[k] = "."
        /\ \A m \in (k + 1)..Len(s) : s[m] \notin {".", "/"}
        /\ \E j \in 1..(k - 1) :
              /\ s[j] # "."
              /\ \A m \in j..k : s[m] # "/"

\* C9 as stated: an upload passes if and only if the part of its name from
\* the last ".", lower-cased, is an accepted extension and neither side
\* exceeds 70; the size check alone accepts an absent image.
C9_PassIffLastDotPartAndSize ==
    Validated =>
        IF upload.present
        THEN Passed <=> (Lower(LastDotPart(upload.name)) \in ValidExts
                            /\ WithinSize(upload))
        ELSE verdict.size = "accepted"

\* C9 amended: as stated, with the extension taken as os.path.splitext takes
\* it: the part from the last "." counts only when no "/" follows that "."
\* and a character other than "." precedes it in the last path component
\* (".png" has no extension and is rejected).
C9_PassIffExtensionAndSize ==
    Validated =>
        IF upload.present
        THEN Passed <=> (/\ HasExtension(upload.name)
                         /\ Lower(LastDotPart(upload.name)) \in ValidExts
                         /\ WithinSize(upload))
        ELSE verdict.size = "accepted"

C9_Witness ==
    /\ Validated
    /\ upload.present
    /\ upload.name = <<"i", ".", "P", "N", "G">>
    /\ upload.width = MaxIconSide /\ upload.height = MaxIconSide
    /\ Passed

====
